---------------------------- MODULE Spec2Model ----------------------------
(***************************************************************************)
(* cmdg: a terminal client for Gmail (src/cmdg.go), and the file dialogs   *)
(* of its later version (src/unnamed/part_000).                            *)
(*                                                                         *)
(* Spec        the interactive session: the message list with its cursor   *)
(*             and mark set, the parallel fetch/mutation batches, the      *)
(*             open-message view with its scroll offset.                   *)
(* SpecEditor  runEditor: the temporary file and the terminal hand-over.   *)
(* SpecMode    runEditorMode, messagesCmdCompose, openMessageCmdReply:     *)
(*             the texts the editor leaves, their checks, the send.        *)
(* SpecNav     readDir, loadFileDialog, saveFileDialog.                    *)
(* SpecMime    mimeEncode and mimeDecode on byte strings.                  *)
(* SpecTime    timestring on a calendar of 365-day years.                  *)
(* SpecUnread  the open-message handlers together with the goroutine       *)
(*             openMessageDraw starts to remove the unread label.          *)
(*                                                                         *)
(* Indices follow the Go code: messages.current and openMessageScrollY are *)
(* 0-based, so the current message is msgs[current + 1].                   *)
(*                                                                         *)
(* Left out of Spec: the showDetails toggle and the quit key (neither      *)
(* touches the list, the marks or the scroll offset), the rendering of     *)
(* rows, the goroutine of openMessageDraw, which is SpecUnread's, and the  *)
(* compose and reply handlers, which are SpecMode's. In                    *)
(* SpecMode a runEditor call is one step with the outcomes SpecEditor      *)
(* gives it: an error, a text, or the exit of the process.                 *)
(***************************************************************************)
EXTENDS Integers, Sequences, FiniteSets, TLC

(* ------------------------------ bounds -------------------------------- *)

\* Message IDs the remote mailbox may hold.
NumIds == 2
\* Longest listing Users.Messages.List returns in the model (20 in the code).
MaxList == 2
\* Longest message body, in lines.
MaxBody == 2
\* A pane height below the padding of openMessageDraw.
SmallH == 2
\* Distinct non-empty texts a caller passes to runEditor or an editor saves.
NumTexts == 3
\* runEditor calls in one behaviour.
MaxEdits == 2
\* Lines of the longest text an editor leaves in its file.
MaxLines == 3
\* File names a directory may hold.
NumNames == 2
\* Depth of the directory tree below the root.
MaxDepth == 1
\* Characters of the longest filename buffer of saveFileDialog.
MaxFn == 1
\* Bytes of the longest string handed to mimeEncode.
MaxBytes == 3
\* Days beyond 365 a Date header may lie before now.
AgeMargin == 2
\* Days on which timestring is called.
NumNows == 2
\* Times of day a timestamp may carry.
NumMinutes == 2
\* Goroutines of openMessageDraw followed at a time.
MaxBg == 1

(* -------------------------- program constants ------------------------- *)

\* openMessageDraw: maxScroll := len(bodyLines) - h + 10
scrollPad == 10
\* openMessageCmdScrollDown / openMessageCmdScrollUp move by two lines.
scrollStep == 2

Ids == 1..NumIds
\* openMessage == nil
Nil == 0
\* The thread running ui.MainLoop (and main before it); workers are 1..n.
MainThread == 0
\* The temporary file does not exist.
NoFile == -1
\* The content of the file ioutil.TempFile has just created.
Empty == 0
Texts == 1..NumTexts

RECURSIVE SeqsUpTo(_)
SeqsUpTo(n) ==
    IF n = 0 THEN {<< >>}
    ELSE LET shorter == SeqsUpTo(n - 1)
         IN  shorter \cup {Append(s, x) : s \in {t \in shorter : Len(t) = n - 1}, x \in Ids}

Range(s) == {s[i] : i \in DOMAIN s}
Ascending(s) == \A i, j \in DOMAIN s : i < j => s[i] < s[j]

\* What Users.Messages.List can answer: at most MaxList distinct IDs. The
\* remote side lists by date, so two messages never swap places between two
\* listings: IDs are numbered in that order.
Listings == {s \in SeqsUpTo(MaxList) : Ascending(s)}

\* Heights openMessageView.Size() can report: below the padding, just above
\* it, and above padding plus the longest body.
Heights == {SmallH, scrollPad + 1, scrollPad + MaxBody + 1}

\* len(strings.Split(getBody(m), "\n")): a message's body never changes on
\* the remote side, so it is a fixed function of the ID (1..MaxBody lines).
BodyLines(id) == 1 + ((id - 1) % MaxBody)

VARIABLES
    proc,          \* "run", or why the process ended
    pc,            \* position of the main thread
    cmd,           \* the handler the main thread runs (or ran last)
    messagesNil,   \* messages == nil (before the first refresh)
    msgs,          \* messages.messages, as IDs
    current,       \* messages.current
    marked,        \* IDs with messages.marked[id] == true
    view,          \* the current gocui view: vnMessages or vnOpenMessage
    openMessage,   \* ID of openMessage, or Nil
    scrollY,       \* openMessageScrollY
    viewH,         \* height openMessageView.Size() reported to the last draw
    status,        \* what status() last wrote to bottomView
    chans,         \* parallel.chans: one worker goroutine and channel each
    idx,           \* position of the range loop in parallel.run
    ret,           \* list(): ret.messages
    ok,            \* messagesCmdApply: ok
    fail,          \* messagesCmdApply: fail
    errstr,        \* messagesCmdApply: errstr (the ID it names, or Nil)
    readyOrder,    \* history: workers in the order their results became ready
    applyOrder,    \* history: workers in the order their apply action ran
    writers,       \* history: threads that wrote the shared state in a batch
    edPc,          \* runEditor: position ("idle": in the caller)
    edInput,       \* runEditor: input
    edFile,        \* content of the temporary file, or NoFile
    edTerm,        \* "ui" (termbox initialised) or "closed"
    edDefers,      \* runEditor: the deferred calls, last registered last
    edRet,         \* what runEditor's return statement returned
    edCalls,       \* number of runEditor calls so far
    emPc,          \* compose and reply: position ("idle": in the main loop)
    emInput,       \* runEditorMode: input
    emS,           \* runEditorMode: s, what runEditor returned last (or NoText)
    emUnchanged,   \* history: the text runEditor returned last was its seed
    emRet,         \* what runEditorMode (compose) or getReply (reply) returned
    emSent,        \* the Users.Messages.Send call of this handler, or NoSend
    navPc,         \* file dialogs: "idle" (not called), "load", "save", "returned"
    navDisk,       \* children of the directory readDir listed last
    navFiles,      \* files
    navCurDir,     \* curDir, as the names below the root
    navCur,        \* cur
    navFn,         \* saveFileDialog: fn
    navEdit,       \* saveFileDialog: fileNameEdit
    navRet,        \* what the dialog returned
    navErr,        \* history: a readDir call of the last step failed
    mimePc,        \* "start", "encoded" or "decoded"
    mimeIn,        \* the byte string handed to mimeEncode
    mimeOut,       \* what mimeEncode made of it
    mimeBack,      \* what mimeDecode made of mimeOut
    tsPc,          \* "start" or "done": timestring has been called
    tsNow,         \* time.Now() during that call
    tsDate,        \* the parsed Date header of the message, or NoDate
    tsOut,         \* what timestring returned
    bg             \* the goroutines openMessageDraw started, still running

sessVars == <<proc, pc, cmd, messagesNil, msgs, current, marked, view,
              openMessage, scrollY, viewH, status>>
batchVars == <<chans, idx, ret, ok, fail, errstr, readyOrder, applyOrder, writers>>
edVars == <<edPc, edInput, edFile, edTerm, edDefers, edRet, edCalls>>
modeVars == <<emPc, emInput, emS, emUnchanged, emRet, emSent>>
navVars == <<navPc, navDisk, navFiles, navCurDir, navCur, navFn, navEdit, navRet, navErr>>
mimeVars == <<mimePc, mimeIn, mimeOut, mimeBack>>
timeVars == <<tsPc, tsNow, tsDate, tsOut>>
bgVars == <<bg>>
moreVars == <<timeVars, bgVars>>
otherVars == <<modeVars, navVars, mimeVars, moreVars>>
vars == <<sessVars, batchVars, edVars, otherVars>>

listVars == <<messagesNil, msgs, current>>
viewVars == <<view, openMessage, scrollY, viewH>>

(* ------------------------- parallel (97-112) -------------------------- *)

\* A worker that has not yet handed back its apply action.
NoF == [op |-> "none", id |-> Nil]

\* parallel.add, once per operation: a goroutine and its unbuffered channel,
\* appended to p.chans in call order.
Add(ids) ==
    [i \in 1..Len(ids) |-> [id |-> ids[i], st |-> "running", err |-> FALSE, f |-> NoF]]

\* Faulty variant of Invoke: a fetched message is put in front of the list.
InvokeFront(t, f) ==
    /\ writers' = writers \cup {t}
    /\ ret' = IF f.op = "append" THEN <<f.id>> \o ret ELSE ret
    /\ marked' = IF f.op = "unmark" THEN marked \ {f.id} ELSE marked
    /\ ok' = IF f.op = "unmark" THEN ok + 1 ELSE ok
    /\ errstr' = IF f.op = "fail" THEN f.id ELSE errstr
    /\ fail' = IF f.op = "fail" THEN fail + 1 ELSE fail

\* f(): the body of an apply action, run by thread t.
\*   "append"  list():             ret.messages = append(ret.messages, mres)
\*   "unmark"  messagesCmdApply(): delete(messages.marked, id); ok++
\*   "fail"    messagesCmdApply(): errstr = ...id...; fail++
Invoke(t, f) ==
    /\ writers' = writers \cup {t}
    /\ ret' = IF f.op = "append" THEN Append(ret, f.id) ELSE ret
    /\ marked' = IF f.op = "unmark" THEN marked \ {f.id} ELSE marked
    /\ ok' = IF f.op = "unmark" THEN ok + 1 ELSE ok
    /\ errstr' = IF f.op = "fail" THEN f.id ELSE errstr
    /\ fail' = IF f.op = "fail" THEN fail + 1 ELSE fail

\* Faulty variant of Send: the worker runs the apply action itself before sending.
SendApplying(w, err, f) ==
    /\ chans' = [chans EXCEPT ![w] = [id |-> chans[w].id, st |-> "ready", err |-> err, f |-> f]]
    /\ readyOrder' = Append(readyOrder, w)
    /\ Invoke(w, f)
    /\ UNCHANGED <<idx, applyOrder>>

\* ch <- f in worker w, whose remote call returned err: the worker blocks on
\* its channel holding f; it touches nothing else.
Send(w, err, f) ==
    /\ chans' = [chans EXCEPT ![w] = [id |-> chans[w].id, st |-> "ready", err |-> err, f |-> f]]
    /\ readyOrder' = Append(readyOrder, w)
    /\ UNCHANGED <<idx, ret, marked, ok, fail, errstr, applyOrder, writers>>

\* Faulty variant of RunReturned: the loop stops one channel early.
RunReturnedEarly == idx >= Len(chans)

\* The range loop of parallel.run has passed the last channel.
RunReturned == idx > Len(chans)

\* Faulty variant of Run: receive from whichever worker is sending (a select over
\* all channels) instead of the next channel of p.chans.
RunAnyReady ==
    /\ proc = "run"
    /\ pc \in {"list", "apply"}
    /\ ~RunReturned
    /\ \E w \in DOMAIN chans :
          /\ chans[w].st = "ready"
          /\ chans' = [chans EXCEPT ![w].st = "done"]
          /\ Invoke(MainThread, chans[w].f)
          /\ applyOrder' = Append(applyOrder, w)
    /\ idx' = idx + 1
    /\ UNCHANGED <<proc, pc, cmd, listVars, viewVars, status, readyOrder, edVars, otherVars>>

\* One iteration of parallel.run: f := <-ch; f() on the next channel of
\* p.chans, in the order of the add calls. The receive blocks until that
\* worker sends.
Run ==
    /\ proc = "run"
    /\ pc \in {"list", "apply"}
    /\ ~RunReturned
    /\ chans[idx].st = "ready"
    /\ chans' = [chans EXCEPT ![idx].st = "done"]
    /\ Invoke(MainThread, chans[idx].f)
    /\ applyOrder' = Append(applyOrder, idx)
    /\ idx' = idx + 1
    /\ UNCHANGED <<proc, pc, cmd, listVars, viewVars, status, readyOrder, edVars, otherVars>>

\* p goes out of scope when the handler returns.
BatchCleared ==
    /\ chans' = << >>
    /\ idx' = 1
    /\ ret' = << >>
    /\ ok' = 0
    /\ fail' = 0
    /\ errstr' = Nil
    /\ readyOrder' = << >>
    /\ applyOrder' = << >>
    /\ writers' = {}

(* --------------------------- list (121-152) --------------------------- *)

\* list() up to p.run(): the listing call (log.Fatalf when it fails), a
\* fresh ret, one add per listed message.
ListStart ==
    \/ /\ proc' = "fatal_list"
       /\ UNCHANGED <<pc, batchVars>>
    \/ \E l \in Listings :
          /\ chans' = Add(l)
          /\ idx' = 1
          /\ ret' = << >>
          /\ ok' = 0
          /\ fail' = 0
          /\ errstr' = Nil
          /\ readyOrder' = << >>
          /\ applyOrder' = << >>
          /\ writers' = {}
          /\ pc' = "list"
          /\ UNCHANGED proc

\* The goroutine list() adds for one message: Users.Messages.Get, then
\* log.Fatalf on an error, else the apply action is sent on the channel.
ListWorker(w) ==
    /\ proc = "run"
    /\ pc = "list"
    /\ w \in DOMAIN chans
    /\ chans[w].st = "running"
    /\ \/ /\ proc' = "fatal_get"
          /\ UNCHANGED <<batchVars, marked>>
       \/ /\ Send(w, FALSE, [op |-> "append", id |-> chans[w].id])
          /\ UNCHANGED proc
    /\ UNCHANGED <<pc, cmd, listVars, viewVars, status, edVars, otherVars>>

(* ------------------ messageList cursor (234-251) ---------------------- *)

ListNext(cur, n) == IF cur < n - 1 THEN cur + 1 ELSE cur
ListPrev(cur) == IF cur > 0 THEN cur - 1 ELSE cur
\* Faulty variant of FixCurrent: the cursor is not clamped.
FixCurrentNone(cur, n) == cur

FixCurrent(cur, n) ==
    LET c1 == IF cur >= n THEN n - 1 ELSE cur
    IN  IF c1 < 0 THEN 0 ELSE c1

(* ---------------------- refreshMessages (266-280) --------------------- *)

\* Faulty variant of RefreshMarked: the empty map list() made stays in place.
RefreshMarkedFresh(old) == {}

\* The mark map refreshMessages puts back into the new messageList.
RefreshMarked(old) == old

\* refreshMessages after list() has returned: the new list replaces the old
\* one, cursor and marks are carried over, the cursor is clamped. At
\* start-up main goes on to getLabels (log.Fatalf when it fails) and enters
\* ui.MainLoop.
RefreshReturn ==
    /\ proc = "run"
    /\ pc = "list"
    /\ RunReturned
    /\ msgs' = ret
    /\ current' = FixCurrent(IF messagesNil THEN 0 ELSE current, Len(ret))
    /\ marked' = RefreshMarked(IF messagesNil THEN {} ELSE marked)
    /\ messagesNil' = FALSE
    /\ pc' = "idle"
    /\ IF cmd = "main"
       THEN proc' \in {"run", "fatal_labels"}
       ELSE UNCHANGED proc
    /\ BatchCleared
    /\ UNCHANGED <<cmd, viewVars, status, edVars, otherVars>>

\* main(): refreshMessages(g) before the main loop starts.
Startup ==
    /\ proc = "run"
    /\ pc = "startup"
    /\ ListStart
    /\ UNCHANGED <<cmd, listVars, marked, viewVars, status, edVars, otherVars>>

Idle == proc = "run" /\ pc = "idle"
InList == Idle /\ view = "messages"
InOpen == Idle /\ view = "openMessage"

\* 'r', Ctrl-R in the message list.
messagesCmdRefresh ==
    /\ InList
    /\ cmd' = "refresh"
    /\ ListStart
    /\ UNCHANGED <<listVars, marked, viewVars, status, edVars, otherVars>>

\* 'n', Ctrl-N in the message list.
next ==
    /\ InList
    /\ cmd' = "next"
    /\ current' = ListNext(current, Len(msgs))
    /\ UNCHANGED <<proc, pc, messagesNil, msgs, marked, viewVars, status, batchVars, edVars, otherVars>>

\* 'p', Ctrl-P in the message list.
prev ==
    /\ InList
    /\ cmd' = "prev"
    /\ current' = ListPrev(current)
    /\ UNCHANGED <<proc, pc, messagesNil, msgs, marked, viewVars, status, batchVars, edVars, otherVars>>

\* messages.messages[messages.current] is inside the slice.
CurrentInRange == 0 <= current /\ current < Len(msgs)

Toggle(id) == IF id \in marked THEN marked \ {id} ELSE marked \cup {id}

\* 'x' in the message list: toggle the mark of the current message, then
\* next(). Indexing an empty list panics.
messagesCmdMark ==
    /\ InList
    /\ cmd' = "mark"
    /\ IF CurrentInRange
       THEN /\ marked' = Toggle(msgs[current + 1])
            /\ current' = ListNext(current, Len(msgs))
            /\ UNCHANGED proc
       ELSE /\ proc' = "panic_index"
            /\ UNCHANGED <<marked, current>>
    /\ UNCHANGED <<pc, messagesNil, msgs, viewVars, status, batchVars, edVars, otherVars>>

(* -------------------- messagesCmdApply (348-400) ---------------------- *)

\* What status() shows, without the verb: the kind of line, the two counts
\* and the ID the error string names.
Status(kind, nOk, nFail, e) == [kind |-> kind, ok |-> nOk, fail |-> nFail, err |-> e]

\* The IDs messagesCmdApply adds an operation for: the marked messages of
\* the list, in list order.
MarkedInList == SelectSeq(msgs, LAMBDA id : id \in marked)

\* messagesCmdApply up to p.run(): status, one add per marked message.
ApplyStart(verb) ==
    /\ InList
    /\ cmd' = verb
    /\ status' = Status("wait", 0, 0, Nil)
    /\ chans' = Add(MarkedInList)
    /\ idx' = 1
    /\ ret' = << >>
    /\ ok' = 0
    /\ fail' = 0
    /\ errstr' = Nil
    /\ readyOrder' = << >>
    /\ applyOrder' = << >>
    /\ writers' = {}
    /\ pc' = "apply"
    /\ UNCHANGED <<proc, listVars, marked, viewVars, edVars, otherVars>>

\* 'a', 'e' in the message list.
messagesCmdArchive == ApplyStart("archiving")

\* 'd' in the message list.
messagesCmdDelete == ApplyStart("trashing")

\* Faulty variant of ApplyAction: the error of f(id) is ignored.
ApplyActionIgnoreErr(err, id) == [op |-> "unmark", id |-> id]

\* The apply action a messagesCmdApply worker sends for its outcome.
ApplyAction(err, id) ==
    IF err THEN [op |-> "fail", id |-> id] ELSE [op |-> "unmark", id |-> id]

\* The goroutine messagesCmdApply adds for one marked message: f(id), then
\* the apply action for the outcome is sent on the channel.
ApplyWorker(w) ==
    /\ proc = "run"
    /\ pc = "apply"
    /\ w \in DOMAIN chans
    /\ chans[w].st = "running"
    /\ \E err \in BOOLEAN : Send(w, err, ApplyAction(err, chans[w].id))
    /\ UNCHANGED <<proc, pc, cmd, listVars, viewVars, status, edVars, otherVars>>

\* The mark set messagesCmdApply leaves after p.run().
ApplyMarked == IF fail > 0 THEN marked ELSE {}

\* messagesCmdApply after p.run() has returned: the status line, and the
\* mark set is replaced by an empty one when nothing failed.
ApplyReport ==
    /\ proc = "run"
    /\ pc = "apply"
    /\ RunReturned
    /\ status' = IF fail > 0
                 THEN Status("partial", ok, fail, errstr)
                 ELSE Status("ok", ok, 0, Nil)
    /\ marked' = ApplyMarked
    /\ pc' = "applied"
    /\ UNCHANGED <<proc, cmd, listVars, viewVars, batchVars, edVars, otherVars>>

\* messagesCmdApply: refreshMessages(gmailService), whatever the outcome.
ApplyRefresh ==
    /\ proc = "run"
    /\ pc = "applied"
    /\ ListStart
    /\ UNCHANGED <<cmd, listVars, marked, viewVars, status, edVars, otherVars>>

(* ------------------------ open message (554-637) ---------------------- *)

\* Faulty variant of ClampScroll: the lower bound is not enforced.
ClampScrollNoFloor(s, lines, h) ==
    LET maxScroll == lines - h + scrollPad
    IN  IF s > maxScroll THEN maxScroll ELSE s

\* openMessageDraw, lines 574-580: the scroll offset after clamping.
ClampScroll(s, lines, h) ==
    LET maxScroll == lines - h + scrollPad
        s1 == IF s > maxScroll THEN maxScroll ELSE s
    IN  IF s1 < 0 THEN 0 ELSE s1

\* openMessageDraw with the cursor at cur, openMessageScrollY at s and a
\* pane h lines high: messages.messages[cur] panics outside the list and
\* bodyLines[openMessageScrollY:] panics beyond the body.
openMessageDraw(cur, s, h) ==
    IF 0 <= cur /\ cur < Len(msgs)
    THEN LET id == msgs[cur + 1]
             s2 == ClampScroll(s, BodyLines(id), h)
         IN  /\ openMessage' = id
             /\ viewH' = h
             /\ scrollY' = s2
             /\ IF s2 > BodyLines(id)
                THEN proc' = "panic_slice" /\ UNCHANGED view
                ELSE view' = "openMessage" /\ UNCHANGED proc
    ELSE /\ proc' = "panic_index"
         /\ scrollY' = s
         /\ UNCHANGED <<openMessage, viewH, view>>

\* Enter, '>' in the message list.
messagesCmdOpen ==
    /\ InList
    /\ cmd' = "open"
    /\ \E h \in Heights : openMessageDraw(current, 0, h)
    /\ UNCHANGED <<pc, listVars, marked, status, batchVars, edVars, otherVars>>

\* Ctrl-P in the open message.
openMessageCmdPrev ==
    /\ InOpen
    /\ cmd' = "openPrev"
    /\ current' = ListPrev(current)
    /\ \E h \in Heights : openMessageDraw(current', 0, h)
    /\ UNCHANGED <<pc, messagesNil, msgs, marked, status, batchVars, edVars, otherVars>>

\* Ctrl-N in the open message.
openMessageCmdNext ==
    /\ InOpen
    /\ cmd' = "openNext"
    /\ current' = ListNext(current, Len(msgs))
    /\ \E h \in Heights : openMessageDraw(current', 0, h)
    /\ UNCHANGED <<pc, messagesNil, msgs, marked, status, batchVars, edVars, otherVars>>

\* 'x' in the open message: toggle the mark, then openMessageCmdNext.
openMessageCmdMark ==
    /\ InOpen
    /\ cmd' = "openMark"
    /\ IF CurrentInRange
       THEN /\ marked' = Toggle(msgs[current + 1])
            /\ current' = ListNext(current, Len(msgs))
            /\ \E h \in Heights : openMessageDraw(current', 0, h)
       ELSE /\ proc' = "panic_index"
            /\ UNCHANGED <<marked, current, viewVars>>
    /\ UNCHANGED <<pc, messagesNil, msgs, status, batchVars, edVars, otherVars>>

\* A scroll key in the open message: the offset moves by delta(h), where h
\* is the height of the pane, and the message is drawn again.
Scroll(name, h, delta) ==
    /\ InOpen
    /\ cmd' = name
    /\ openMessageDraw(current, scrollY + delta, h)
    /\ UNCHANGED <<pc, listVars, marked, status, batchVars, edVars, otherVars>>

\* Space, PgDn.
openMessageCmdPageDown == \E h \in Heights : Scroll("pageDown", h, h)
\* 'n'.
openMessageCmdScrollDown == \E h \in Heights : Scroll("scrollDown", h, scrollStep)
\* Backspace, PgUp.
openMessageCmdPageUp == \E h \in Heights : Scroll("pageUp", h, 0 - h)
\* 'p'.
openMessageCmdScrollUp == \E h \in Heights : Scroll("scrollUp", h, 0 - scrollStep)

\* '<' in the open message; layout then deletes the view.
openMessageCmdClose ==
    /\ InOpen
    /\ cmd' = "close"
    /\ openMessage' = Nil
    /\ view' = "messages"
    /\ viewH' = 0
    /\ UNCHANGED <<proc, pc, listVars, marked, scrollY, status, batchVars, edVars, otherVars>>

(* ------------------------------ session ------------------------------- *)

(* -------------------------- runEditor (427-466) ---------------------- *)

NoRet == [kind |-> "none", s |-> Empty]
\* return "", err
RetErr == [kind |-> "err", s |-> Empty]
\* return string(data), nil
RetOk(data) == [kind |-> "ok", s |-> data]

\* A return statement of runEditor: the result is fixed, the deferred calls
\* run next.
EdReturnStmt(r) ==
    /\ edRet' = r
    /\ edPc' = "defer"

\* A caller (runEditorMode, getReply) calls runEditor(input). Lines 428-433:
\* ioutil.TempFile creates the file, or fails and runEditor returns at once;
\* os.Remove is deferred.
EdTempFile ==
    /\ edPc = "idle"
    /\ edCalls < MaxEdits
    /\ edCalls' = edCalls + 1
    /\ \E input \in Texts :
          /\ edInput' = input
          /\ \/ /\ edFile' = Empty
                /\ edDefers' = <<"remove">>
                /\ edPc' = "write"
                /\ edRet' = NoRet
             \/ /\ EdReturnStmt(RetErr)
                /\ edDefers' = << >>
                /\ UNCHANGED edFile
    /\ UNCHANGED <<edTerm, sessVars, batchVars, otherVars>>

\* Lines 435-437: ioutil.WriteFile.
EdWriteFile ==
    /\ edPc = "write"
    /\ \/ /\ edFile' = edInput
          /\ edPc' = "close"
          /\ UNCHANGED edRet
       \/ /\ EdReturnStmt(RetErr)
          /\ UNCHANGED edFile
    /\ UNCHANGED <<edInput, edTerm, edDefers, edCalls, sessVars, batchVars, otherVars>>

\* Lines 440-445: termbox.Close(), and termbox.Init is deferred.
EdTermboxClose ==
    /\ edPc = "close"
    /\ edTerm' = "closed"
    /\ edDefers' = Append(edDefers, "init")
    /\ edPc' = "editor"
    /\ UNCHANGED <<edInput, edFile, edRet, edCalls, sessVars, batchVars, otherVars>>

\* Lines 448-458: cmd.Run(). The editor does not start, or runs and leaves
\* some text in the file, exiting with or without an error.
EdRunEditor ==
    /\ edPc = "editor"
    /\ \/ /\ EdReturnStmt(RetErr)
          /\ UNCHANGED edFile
       \/ \E out \in Texts :
             /\ edFile' = out
             /\ \/ EdReturnStmt(RetErr)
                \/ edPc' = "read" /\ UNCHANGED edRet
    /\ UNCHANGED <<edInput, edTerm, edDefers, edCalls, sessVars, batchVars, otherVars>>

\* Lines 461-465: ioutil.ReadFile.
EdReadFile ==
    /\ edPc = "read"
    /\ \/ EdReturnStmt(RetOk(edFile))
       \/ EdReturnStmt(RetErr)
    /\ UNCHANGED <<edInput, edFile, edTerm, edDefers, edCalls, sessVars, batchVars, otherVars>>

\* The deferred call registered last runs first. termbox.Init failing ends
\* in log.Fatalf, which exits the process at once: the deferred calls still
\* waiting do not run.
EdDeferred ==
    /\ edPc = "defer"
    /\ edDefers # << >>
    /\ edDefers' = SubSeq(edDefers, 1, Len(edDefers) - 1)
    /\ IF edDefers[Len(edDefers)] = "init"
       THEN /\ \/ edTerm' = "ui" /\ UNCHANGED edPc
               \/ edPc' = "fatal" /\ UNCHANGED edTerm
            /\ UNCHANGED edFile
       ELSE /\ edFile' = NoFile
            /\ UNCHANGED <<edPc, edTerm>>
    /\ UNCHANGED <<edInput, edRet, edCalls, sessVars, batchVars, otherVars>>

\* All deferred calls have run: control is back in the caller.
EdReturn ==
    /\ edPc = "defer"
    /\ edDefers = << >>
    /\ edPc' = "idle"
    /\ UNCHANGED <<edInput, edFile, edTerm, edDefers, edRet, edCalls, sessVars, batchVars, otherVars>>

(* ----------------- texts of the compose protocol --------------------- *)

\* A text is the sequence of its lines, strings.Split(text, "\n"): the empty
\* string is one blank line, and a text ending in "\n" ends in a blank line.
\* A line is blank, or exactly "Mode: <word>" with <word> matching \w+, or
\* any other non-empty line ("To: ", " Mode: send", "Mode: send now").
Blank == [kind |-> "blank", word |-> ""]
Other == [kind |-> "other", word |-> ""]
Directive(w) == [kind |-> "mode", word |-> w]

\* The words a Mode line carries in the model, as typed.
Words == {"Send", "ABORT", "draft", "later"}
Lines == {Blank, Other} \cup {Directive(w) : w \in Words}

\* What an editor can leave in the file: 1..MaxLines lines.
EditorTexts == UNION {[1..k -> Lines] : k \in 1..MaxLines}

\* No text yet (no string of the program).
NoText == << >>
\* ""
EmptyText == <<Blank>>

Min(S) == CHOOSE x \in S : \A y \in S : x <= y

\* strings.ToLower on the words of the model.
ToLower(w) ==
    CASE w = "Send" -> "send"
      [] w = "ABORT" -> "abort"
      [] OTHER -> w

\* Faulty variant of SplitN: a text without "\n\n" is taken as a header with
\* an empty body.
SplitNNoSeparator(t) ==
    LET seps == {i \in 2..(Len(t) - 1) : t[i] = Blank}
    IN  IF seps = {}
        THEN <<t, EmptyText>>
        ELSE <<SubSeq(t, 1, Min(seps) - 1), SubSeq(t, Min(seps) + 1, Len(t))>>

\* strings.SplitN(t, "\n\n", 2). "\n\n" is in t exactly where a blank line
\* stands between two other lines; the split is at the first such line:
\* what precedes it, and what follows it.
SplitN(t) ==
    LET seps == {i \in 2..(Len(t) - 1) : t[i] = Blank}
    IN  IF seps = {}
        THEN <<t>>
        ELSE <<SubSeq(t, 1, Min(seps) - 1), SubSeq(t, Min(seps) + 1, Len(t))>>

\* sendHeaderRE.FindStringSubmatch(h) with sendHeaderRE =
\* (?:^|\n)Mode: (\w+)(?:$|\n): the leftmost match is the first line of h
\* that is exactly "Mode: <word>"; the result is the match and its group,
\* or nil.
FindStringSubmatch(h) ==
    LET hits == {i \in DOMAIN h : h[i].kind = "mode"}
    IN  IF hits = {} THEN << >> ELSE <<h[Min(hits)], h[Min(hits)].word>>

(* ------------------- runEditorMode (468-503) -------------------------- *)

NoModeRet == [mode |-> "", s |-> NoText, err |-> FALSE]
\* return "", "", err
ModeRetErr == [mode |-> "", s |-> EmptyText, err |-> TRUE]
\* return mode, s, nil
ModeRetOk(mode, t) == [mode |-> mode, s |-> t, err |-> FALSE]

\* A status line of the compose and reply handlers.
Say(text) == Status(text, 0, 0, Nil)

\* Faulty variant of NextSeed: the editor is opened on the seed it had.
NextSeedSame(input, t) == input

\* input = s on the three invalid paths of the loop.
NextSeed(input, t) == t

\* One pass of the for loop of runEditorMode: runEditor(input), which fails,
\* exits the process in its deferred termbox.Init, or returns the text t the
\* editor left; then the checks of t, ending in a return or in continue.
runEditorMode ==
    /\ proc = "run"
    /\ emPc = "loop"
    /\ \/ /\ status' = Say("Running editor failed")
          /\ emRet' = ModeRetErr
          /\ emPc' = "compose"
          /\ UNCHANGED <<proc, emInput, emS, emUnchanged>>
       \/ /\ proc' = "fatal_termbox"
          /\ UNCHANGED <<status, emPc, emInput, emS, emUnchanged, emRet>>
       \/ \E t \in EditorTexts :
             LET s2 == SplitN(t)
                 m == FindStringSubmatch(s2[1])
                 mode == ToLower(m[2])
             IN  /\ emS' = t
                 /\ emUnchanged' = (t = emInput)
                 /\ UNCHANGED proc
                 /\ IF Len(s2) # 2
                    THEN /\ status' = Say("Malformed email, reopening editor")
                         /\ emInput' = NextSeed(emInput, t)
                         /\ UNCHANGED <<emPc, emRet>>
                    ELSE IF Len(m) # 2
                    THEN /\ status' = Say("Sending mode not present")
                         /\ emInput' = NextSeed(emInput, t)
                         /\ UNCHANGED <<emPc, emRet>>
                    ELSE IF mode \in {"send", "draft"}
                    THEN /\ emRet' = ModeRetOk(mode, t)
                         /\ emPc' = "compose"
                         /\ UNCHANGED <<status, emInput>>
                    ELSE IF mode = "abort"
                    THEN /\ status' = Say("Sending aborted")
                         /\ emRet' = ModeRetOk(mode, t)
                         /\ emPc' = "compose"
                         /\ UNCHANGED emInput
                    ELSE /\ emInput' = NextSeed(emInput, t)
                         /\ UNCHANGED <<status, emPc, emRet>>
    /\ UNCHANGED <<pc, cmd, messagesNil, msgs, current, marked, viewVars, emSent,
                   batchVars, edVars, navVars, mimeVars, moreVars>>

(* ------------------ messagesCmdCompose (505-525) ---------------------- *)

\* "To: \nSubject: \nMode: Send\n\n" + *signature, the signature being one
\* line ("Best regards" unless the flag is given).
ComposeInput == <<Other, Other, Directive("Send"), Blank, Other>>

NoSend == [flow |-> "none", raw |-> NoText, err |-> FALSE]
\* gmailService.Users.Messages.Send(email, &gmail.Message{Raw: ...}).Do()
SendCall(flow, raw, err) == [flow |-> flow, raw |-> raw, err |-> err]

\* 'c' in the message list, lines 505-508: the seed, then runEditorMode.
messagesCmdCompose ==
    /\ proc = "run"
    /\ emPc = "idle"
    /\ cmd' = "compose"
    /\ status' = Say("Running editor")
    /\ emInput' = ComposeInput
    /\ emS' = NoText
    /\ emUnchanged' = FALSE
    /\ emRet' = NoModeRet
    /\ emSent' = NoSend
    /\ emPc' = "loop"
    /\ UNCHANGED <<proc, pc, messagesNil, msgs, current, marked, viewVars,
                   batchVars, edVars, navVars, mimeVars, moreVars>>

\* Faulty variant of ComposeSends: everything but abort is sent.
ComposeSendsUnlessAbort(mode) == mode # "abort"

\* switch mode: only case "send" calls Users.Messages.Send.
ComposeSends(mode) == mode = "send"

\* messagesCmdCompose after runEditorMode has returned, lines 509-524.
ComposeSwitch ==
    /\ proc = "run"
    /\ emPc = "compose"
    /\ IF emRet.err
       THEN /\ status' = Say("Running editor: error")
            /\ UNCHANGED emSent
       ELSE IF ComposeSends(emRet.mode)
       THEN \/ /\ emSent' = SendCall("compose", emRet.s, TRUE)
               /\ status' = Say("Error sending")
            \/ /\ emSent' = SendCall("compose", emRet.s, FALSE)
               /\ status' = Say("Successfully sent")
       ELSE UNCHANGED <<status, emSent>>
    /\ emPc' = "idle"
    /\ UNCHANGED <<proc, pc, cmd, messagesNil, msgs, current, marked, viewVars,
                   emInput, emS, emUnchanged, emRet, batchVars, edVars, navVars, mimeVars, moreVars>>

(* ------------ getReply, openMessageCmdReply (407-425, 527-552) --------- *)

\* getReply: "On <date>, <from> said:\n" and one "> ..." line per body line,
\* each ended by "\n".
ReplyInput == <<Other, Other, Blank>>

\* The text openMessageCmdReply sends: "To: %s\nSubject: %s\n\n%s".
ReplyRaw(body) == <<Other, Other, Blank>> \o body

\* 'r' in the open message, lines 527-529 and 407-423: getReply builds the
\* quoted text.
openMessageCmdReply ==
    /\ proc = "run"
    /\ emPc = "idle"
    /\ cmd' = "reply"
    /\ status' = Say("Composing reply")
    /\ emInput' = ReplyInput
    /\ emS' = NoText
    /\ emUnchanged' = FALSE
    /\ emRet' = NoModeRet
    /\ emSent' = NoSend
    /\ emPc' = "getReply"
    /\ UNCHANGED <<proc, pc, messagesNil, msgs, current, marked, viewVars,
                   batchVars, edVars, navVars, mimeVars, moreVars>>

\* getReply, line 424: return runEditor(f.String()).
getReply ==
    /\ proc = "run"
    /\ emPc = "getReply"
    /\ \/ /\ emRet' = ModeRetErr
          /\ emPc' = "reply"
          /\ UNCHANGED <<proc, emS, emUnchanged>>
       \/ /\ proc' = "fatal_termbox"
          /\ UNCHANGED <<emPc, emS, emUnchanged, emRet>>
       \/ \E t \in EditorTexts :
             /\ emS' = t
             /\ emUnchanged' = (t = emInput)
             /\ emRet' = ModeRetOk("", t)
             /\ emPc' = "reply"
             /\ UNCHANGED proc
    /\ UNCHANGED <<pc, cmd, messagesNil, msgs, current, marked, viewVars, status,
                   emInput, emSent, batchVars, edVars, navVars, mimeVars, moreVars>>

\* openMessageCmdReply after getReply has returned, lines 530-551.
ReplySend ==
    /\ proc = "run"
    /\ emPc = "reply"
    /\ IF emRet.err
       THEN /\ status' = Say("Error creating reply")
            /\ UNCHANGED emSent
       ELSE \/ /\ emSent' = SendCall("reply", ReplyRaw(emRet.s), TRUE)
               /\ status' = Say("Error sending reply")
            \/ /\ emSent' = SendCall("reply", ReplyRaw(emRet.s), FALSE)
               /\ status' = Say("Successfully sent reply")
    /\ emPc' = "idle"
    /\ UNCHANGED <<proc, pc, cmd, messagesNil, msgs, current, marked, viewVars,
                   emInput, emS, emUnchanged, emRet, batchVars, edVars, navVars, mimeVars, moreVars>>

ModeInit ==
    /\ emPc = "idle"
    /\ emInput = NoText
    /\ emS = NoText
    /\ emUnchanged = FALSE
    /\ emRet = NoModeRet
    /\ emSent = NoSend

(* --------------- file navigator (src/unnamed/part_000) ---------------- *)

\* File names are numbered in the order of Go's string comparison.
Names == 1..NumNames
\* "." and "..", the two entries readDir puts in front.
DotName == 0
DotDotName == -1

\* An os.FileInfo, as far as the dialogs look at it: Name() and IsDir().
Entry(n, d) == [name |-> n, dir |-> d]

\* The directories of the model: the root and up to MaxDepth names below it.
Dirs == UNION {[1..k -> Names] : k \in 0..MaxDepth}

\* What a directory can hold: files and sub-directories with distinct
\* names.
Contents ==
    {c \in SUBSET {Entry(n, t) : n \in Names, t \in BOOLEAN} :
        \A a, b \in c : a.name = b.name => a = b}
LeafContents == {c \in Contents : \A a \in c : ~a.dir}

\* The deepest directories of the model hold files only.
ContentsAt(d) == IF Len(d) >= MaxDepth THEN LeafContents ELSE Contents

\* ioutil.ReadDir: the children, sorted by file name.
RECURSIVE ReadDir(_)
ReadDir(c) ==
    IF c = {} THEN << >>
    ELSE LET first == CHOOSE a \in c : \A b \in c : a.name <= b.name
         IN  <<first>> \o ReadDir(c \ {first})

\* Faulty variant of Less: directories are not put first.
LessByName(a, b) == a.name < b.name

\* sortFiles.Less
Less(a, b) ==
    IF a.dir /\ ~b.dir THEN TRUE
    ELSE IF ~a.dir /\ b.dir THEN FALSE
    ELSE a.name < b.name

\* sort.Sort(sortFiles(files)), as an insertion sort on Less.
RECURSIVE SortInsert(_, _)
SortInsert(x, sorted) ==
    IF sorted = << >> THEN <<x>>
    ELSE IF Less(x, Head(sorted)) THEN <<x>> \o sorted
    ELSE <<Head(sorted)>> \o SortInsert(x, Tail(sorted))

RECURSIVE Sort(_)
Sort(files) ==
    IF files = << >> THEN << >> ELSE SortInsert(Head(files), Sort(Tail(files)))

\* path.Join(d, name) for an entry name: the path is cleaned, so "." is d
\* itself and ".." its parent (the root is its own parent).
Join(d, n) ==
    IF n = DotName THEN d
    ELSE IF n = DotDotName
    THEN (IF d = << >> THEN d ELSE SubSeq(d, 1, Len(d) - 1))
    ELSE Append(d, n)

\* readDir, lines 60-69, of a directory holding c: the children sorted,
\* behind "." and "..".
Listing ==
    [c \in Contents |->
        <<Entry(DotName, TRUE), Entry(DotDotName, TRUE)>> \o Sort(ReadDir(c))]

\* The outcomes of readDir(d): an error (of either os.Stat or of
\* ioutil.ReadDir), or the listing of the children d has at the time of
\* the call.
readDir(d) ==
    {[err |-> TRUE, files |-> << >>, disk |-> {}]} \cup
    {[err |-> FALSE, files |-> Listing[c], disk |-> c] : c \in ContentsAt(d)}

\* The keys of the model. In filename editing every key but Tab, Enter and
\* Backspace is typed into the buffer.
Keys == {"q", "n", "p", "enter", "tab", "backspace", "!", "?"}
Typed == Keys \ {"enter", "tab", "backspace"}
FileNames == UNION {[1..k -> Typed] : k \in 0..MaxFn}

NoNavRet == [kind |-> "none", dir |-> << >>, entry |-> DotName, fn |-> << >>]
\* return "", err  /  return "", errCancel  /  return "", errOpen
NavRetErr(kind) == [kind |-> kind, dir |-> << >>, entry |-> DotName, fn |-> << >>]
\* return path.Join(curDir, files[cur].Name()), nil
NavRetEntry(d, n) == [kind |-> "path", dir |-> d, entry |-> n, fn |-> << >>]
\* return path.Join(curDir, fn), nil
NavRetFn(d, fn) == [kind |-> "path", dir |-> d, entry |-> DotName, fn |-> fn]

\* The dialog returns r. One call of a dialog is followed per behaviour: a
\* second call starts from the same state as the first.
NavReturn(r) ==
    /\ navRet' = r
    /\ navPc' = "returned"

\* Lines 86-95 and 159-170: os.Getwd and the first readDir; either failing
\* is returned to the caller.
NavStart(mode, cur0, fn0) ==
    /\ navPc = "idle"
    /\ navFn' = fn0
    /\ navEdit' = FALSE
    /\ \/ /\ NavReturn(NavRetErr("err"))
          /\ navErr' = FALSE
          /\ UNCHANGED <<navDisk, navFiles, navCurDir, navCur>>
       \/ \E d \in Dirs : \E r \in readDir(d) :
             /\ navCurDir' = d
             /\ navErr' = r.err
             /\ IF r.err
                THEN /\ NavReturn(NavRetErr("err"))
                     /\ UNCHANGED <<navDisk, navFiles, navCur>>
                ELSE /\ navFiles' = r.files
                     /\ navDisk' = r.disk
                     /\ navCur' = cur0
                     /\ navPc' = mode
                     /\ navRet' = NoNavRet
    /\ UNCHANGED <<sessVars, batchVars, edVars, modeVars, mimeVars, moreVars>>

\* loadFileDialog up to its loop.
loadFileDialog == NavStart("load", 0, << >>)

\* saveFileDialog(fn) up to its loop.
saveFileDialog == \E fn \in FileNames : NavStart("save", -1, fn)

\* Faulty variant of ChangeDir: a failed readDir empties the listing.
ChangeDirDropping ==
    \E r \in readDir(Join(navCurDir, navFiles[navCur + 1].name)) :
        /\ navErr' = r.err
        /\ IF r.err
           THEN /\ navFiles' = << >>
                /\ navCur' = 0
                /\ UNCHANGED <<navCurDir, navDisk>>
           ELSE /\ navCurDir' = Join(navCurDir, navFiles[navCur + 1].name)
                /\ navFiles' = r.files
                /\ navDisk' = r.disk
                /\ navCur' = 0

\* Lines 135-141 and 252-258: Enter on a directory entry.
ChangeDir ==
    \E r \in readDir(Join(navCurDir, navFiles[navCur + 1].name)) :
        /\ navErr' = r.err
        /\ IF r.err
           THEN UNCHANGED <<navCurDir, navFiles, navDisk, navCur>>
           ELSE /\ navCurDir' = Join(navCurDir, navFiles[navCur + 1].name)
                /\ navFiles' = r.files
                /\ navDisk' = r.disk
                /\ navCur' = 0

\* Faulty variant of CurDown: the cursor may step past the last entry.
CurDownPast(cur, n) == IF cur < n THEN cur + 1 ELSE cur

\* if cur < len(files)-1 { cur++ }
CurDown(cur, n) == IF cur < n - 1 THEN cur + 1 ELSE cur

\* loadFileDialog: if cur > 0 { cur-- }
LoadCurUp(cur) == IF cur > 0 THEN cur - 1 ELSE cur

\* Faulty variant of SaveCurUp: the cursor goes up from the save position.
SaveCurUpAlways(cur) == cur - 1

\* saveFileDialog: if cur >= 0 { cur-- }
SaveCurUp(cur) == IF cur >= 0 THEN cur - 1 ELSE cur

\* One pass of the loop of loadFileDialog, lines 120-146, on the key read.
LoadKey(key) ==
    /\ navPc = "load"
    /\ CASE key = "q" ->
              /\ NavReturn(NavRetErr("cancel"))
              /\ navErr' = FALSE
              /\ UNCHANGED <<navDisk, navFiles, navCurDir, navCur>>
         [] key = "n" ->
              /\ navCur' = CurDown(navCur, Len(navFiles))
              /\ navErr' = FALSE
              /\ UNCHANGED <<navPc, navDisk, navFiles, navCurDir, navRet>>
         [] key = "p" ->
              /\ navCur' = LoadCurUp(navCur)
              /\ navErr' = FALSE
              /\ UNCHANGED <<navPc, navDisk, navFiles, navCurDir, navRet>>
         [] key = "enter" ->
              IF navFiles[navCur + 1].dir
              THEN /\ ChangeDir
                   /\ UNCHANGED <<navPc, navRet>>
              ELSE /\ NavReturn(NavRetEntry(navCurDir, navFiles[navCur + 1].name))
                   /\ navErr' = FALSE
                   /\ UNCHANGED <<navDisk, navFiles, navCurDir, navCur>>
         [] OTHER ->
              /\ navErr' = FALSE
              /\ UNCHANGED <<navPc, navDisk, navFiles, navCurDir, navCur, navRet>>
    /\ UNCHANGED <<navFn, navEdit, sessVars, batchVars, edVars, modeVars, mimeVars, moreVars>>

\* One pass of the loop of saveFileDialog with fileNameEdit set, lines
\* 205-219.
SaveEditKey(key) ==
    /\ navPc = "save"
    /\ navEdit
    /\ navErr' = FALSE
    /\ CASE key = "tab" ->
              /\ navEdit' = FALSE
              /\ UNCHANGED <<navPc, navFn, navRet>>
         [] key = "enter" ->
              /\ NavReturn(NavRetFn(navCurDir, navFn))
              /\ UNCHANGED <<navFn, navEdit>>
         [] key = "backspace" ->
              /\ navFn' = IF Len(navFn) > 0 THEN SubSeq(navFn, 1, Len(navFn) - 1) ELSE navFn
              /\ UNCHANGED <<navPc, navEdit, navRet>>
         [] OTHER ->
              /\ Len(navFn) < MaxFn
              /\ navFn' = Append(navFn, key)
              /\ UNCHANGED <<navPc, navEdit, navRet>>
    /\ UNCHANGED <<navDisk, navFiles, navCurDir, navCur,
                   sessVars, batchVars, edVars, modeVars, mimeVars, moreVars>>

\* One pass of the loop of saveFileDialog with fileNameEdit clear, lines
\* 221-261 ('?' shows the help window and changes nothing).
SaveBrowseKey(key) ==
    /\ navPc = "save"
    /\ ~navEdit
    /\ CASE key = "n" ->
              /\ navCur' = CurDown(navCur, Len(navFiles))
              /\ navErr' = FALSE
              /\ UNCHANGED <<navPc, navDisk, navFiles, navCurDir, navFn, navEdit, navRet>>
         [] key = "p" ->
              /\ navCur' = SaveCurUp(navCur)
              /\ navErr' = FALSE
              /\ UNCHANGED <<navPc, navDisk, navFiles, navCurDir, navFn, navEdit, navRet>>
         [] key = "!" ->
              /\ NavReturn(NavRetErr("open"))
              /\ navErr' = FALSE
              /\ UNCHANGED <<navDisk, navFiles, navCurDir, navCur, navFn, navEdit>>
         [] key = "q" ->
              /\ NavReturn(NavRetErr("cancel"))
              /\ navErr' = FALSE
              /\ UNCHANGED <<navDisk, navFiles, navCurDir, navCur, navFn, navEdit>>
         [] key = "tab" ->
              /\ navEdit' = TRUE
              /\ navErr' = FALSE
              /\ UNCHANGED <<navPc, navDisk, navFiles, navCurDir, navCur, navFn, navRet>>
         [] key = "enter" ->
              IF navCur = -1
              THEN /\ NavReturn(NavRetFn(navCurDir, navFn))
                   /\ navErr' = FALSE
                   /\ UNCHANGED <<navDisk, navFiles, navCurDir, navCur, navFn, navEdit>>
              ELSE IF navFiles[navCur + 1].dir
              THEN /\ ChangeDir
                   /\ UNCHANGED <<navPc, navFn, navEdit, navRet>>
              ELSE /\ navErr' = FALSE
                   /\ UNCHANGED <<navPc, navDisk, navFiles, navCurDir, navCur, navFn,
                                  navEdit, navRet>>
         [] OTHER ->
              /\ navErr' = FALSE
              /\ UNCHANGED <<navPc, navDisk, navFiles, navCurDir, navCur, navFn,
                             navEdit, navRet>>
    /\ UNCHANGED <<sessVars, batchVars, edVars, modeVars, mimeVars, moreVars>>

NavInit ==
    /\ navPc = "idle"
    /\ navDisk = {}
    /\ navFiles = << >>
    /\ navCurDir = << >>
    /\ navCur = 0
    /\ navFn = << >>
    /\ navEdit = FALSE
    /\ navRet = NoNavRet
    /\ navErr = FALSE

(* ----------------- mimeDecode, mimeEncode (291-303) ------------------ *)

\* The bytes of the model: among them those whose encodings hold '+' and
\* '/' in each of the four positions of a group.
Bytes == {0, 62, 63, 77, 190, 239, 251, 255}
ByteStrings == UNION {[1..k -> Bytes] : k \in 0..MaxBytes}

\* The alphabet of base64.StdEncoding, and its padding character.
encodeStd ==
    <<"A", "B", "C", "D", "E", "F", "G", "H", "I", "J", "K", "L", "M",
      "N", "O", "P", "Q", "R", "S", "T", "U", "V", "W", "X", "Y", "Z",
      "a", "b", "c", "d", "e", "f", "g", "h", "i", "j", "k", "l", "m",
      "n", "o", "p", "q", "r", "s", "t", "u", "v", "w", "x", "y", "z",
      "0", "1", "2", "3", "4", "5", "6", "7", "8", "9", "+", "/">>
StdPadding == "="

\* The character of a 6-bit value, the 6-bit value of a character.
EncChar(v) == encodeStd[v + 1]
InAlphabet(c) == \E i \in DOMAIN encodeStd : encodeStd[i] = c
DecChar(c) == (CHOOSE i \in DOMAIN encodeStd : encodeStd[i] = c) - 1

\* base64.StdEncoding.EncodeToString: three bytes to four characters, the
\* last group padded.
RECURSIVE EncodeToString(_)
EncodeToString(b) ==
    IF Len(b) = 0 THEN << >>
    ELSE IF Len(b) = 1
    THEN <<EncChar(b[1] \div 4), EncChar((b[1] % 4) * 16), StdPadding, StdPadding>>
    ELSE IF Len(b) = 2
    THEN <<EncChar(b[1] \div 4), EncChar((b[1] % 4) * 16 + b[2] \div 16),
           EncChar((b[2] % 16) * 4), StdPadding>>
    ELSE <<EncChar(b[1] \div 4), EncChar((b[1] % 4) * 16 + b[2] \div 16),
           EncChar((b[2] % 16) * 4 + b[3] \div 64), EncChar(b[3] % 64)>>
         \o EncodeToString(SubSeq(b, 4, Len(b)))

Decoded(data, err) == [data |-> data, err |-> err]

\* base64.StdEncoding.DecodeString: groups of four characters of the
\* alphabet, padding in the last group only; anything else is a
\* CorruptInputError, returned with the bytes decoded before it.
RECURSIVE DecodeString(_)
DecodeString(e) ==
    IF Len(e) = 0 THEN Decoded(<< >>, FALSE)
    ELSE IF Len(e) < 4 THEN Decoded(<< >>, TRUE)
    ELSE LET rest == SubSeq(e, 5, Len(e))
             v1 == DecChar(e[1])
             v2 == DecChar(e[2])
             v3 == DecChar(e[3])
             v4 == DecChar(e[4])
             b1 == v1 * 4 + v2 \div 16
             b2 == (v2 % 16) * 16 + v3 \div 4
             b3 == (v3 % 4) * 64 + v4
         IN  IF ~InAlphabet(e[1]) \/ ~InAlphabet(e[2]) THEN Decoded(<< >>, TRUE)
             ELSE IF e[3] = StdPadding
             THEN (IF e[4] = StdPadding /\ rest = << >>
                   THEN Decoded(<<b1>>, FALSE)
                   ELSE Decoded(<< >>, TRUE))
             ELSE IF ~InAlphabet(e[3]) THEN Decoded(<< >>, TRUE)
             ELSE IF e[4] = StdPadding
             THEN (IF rest = << >>
                   THEN Decoded(<<b1, b2>>, FALSE)
                   ELSE Decoded(<< >>, TRUE))
             ELSE IF ~InAlphabet(e[4]) THEN Decoded(<< >>, TRUE)
             ELSE LET r == DecodeString(rest)
                  IN  Decoded(<<b1, b2, b3>> \o r.data, r.err)

\* strings.Replace(t, old, new, -1) for one-character old and new.
Replace(t, old, new) == [i \in DOMAIN t |-> IF t[i] = old THEN new ELSE t[i]]

\* Faulty variant of mimeDecode: '_' is not turned back into '/'.
mimeDecodeNoSlash(t) == DecodeString(Replace(t, "-", "+"))

mimeDecode(t) == DecodeString(Replace(Replace(t, "-", "+"), "_", "/"))

mimeEncode(b) == Replace(Replace(EncodeToString(b), "+", "-"), "/", "_")

\* mimeEncode is applied to a byte string, once per behaviour.
MimeEncodeCall ==
    /\ mimePc = "start"
    /\ \E b \in ByteStrings :
          /\ mimeIn' = b
          /\ mimeOut' = mimeEncode(b)
    /\ mimePc' = "encoded"
    /\ UNCHANGED mimeBack
    /\ UNCHANGED <<sessVars, batchVars, edVars, modeVars, navVars, moreVars>>

\* mimeDecode is applied to what mimeEncode returned.
MimeDecodeCall ==
    /\ mimePc = "encoded"
    /\ mimeBack' = mimeDecode(mimeOut)
    /\ mimePc' = "decoded"
    /\ UNCHANGED <<mimeIn, mimeOut, sessVars, batchVars, edVars, modeVars, navVars, moreVars>>

MimeInit ==
    /\ mimePc = "start"
    /\ mimeIn = << >>
    /\ mimeOut = << >>
    /\ mimeBack = Decoded(<< >>, FALSE)

(* ------------- the goroutine of openMessageDraw (556-567) ------------- *)

\* The handlers of the open message above follow the key handler alone. The
\* ones below also start the goroutine of lines 556-567, which runs beside
\* the main loop and reads the global openMessage when it gets to run. A
\* goroutine is a record: the message its openMessageDraw opened, the line
\* it is at, the message whose LabelIds it read and the message whose Id it
\* read. Of the goroutines running at a time, MaxBg are followed.
Goroutine(id) == [opened |-> id, at |-> "hasLabel", labels |-> Nil, id |-> Nil]

\* go func() { ... }(), reached when messages.messages[cur] did not panic.
Go(cur) ==
    bg' = IF 0 <= cur /\ cur < Len(msgs) /\ Len(bg) < MaxBg
          THEN Append(bg, Goroutine(msgs[cur + 1]))
          ELSE bg

\* The frame of a handler that draws the open message.
drawFrame == <<pc, messagesNil, msgs, status, batchVars, edVars, modeVars, navVars, mimeVars, timeVars>>

\* Enter, '>' in the message list.
messagesCmdOpenGo ==
    /\ InList
    /\ cmd' = "open"
    /\ \E h \in Heights : openMessageDraw(current, 0, h)
    /\ Go(current)
    /\ UNCHANGED <<current, marked, drawFrame>>

\* Ctrl-P in the open message.
openMessageCmdPrevGo ==
    /\ InOpen
    /\ cmd' = "openPrev"
    /\ current' = ListPrev(current)
    /\ \E h \in Heights : openMessageDraw(current', 0, h)
    /\ Go(current')
    /\ UNCHANGED <<marked, drawFrame>>

\* Ctrl-N in the open message.
openMessageCmdNextGo ==
    /\ InOpen
    /\ cmd' = "openNext"
    /\ current' = ListNext(current, Len(msgs))
    /\ \E h \in Heights : openMessageDraw(current', 0, h)
    /\ Go(current')
    /\ UNCHANGED <<marked, drawFrame>>

\* 'x' in the open message: toggle the mark, then openMessageCmdNext.
openMessageCmdMarkGo ==
    /\ InOpen
    /\ cmd' = "openMark"
    /\ IF CurrentInRange
       THEN /\ marked' = Toggle(msgs[current + 1])
            /\ current' = ListNext(current, Len(msgs))
            /\ \E h \in Heights : openMessageDraw(current', 0, h)
            /\ Go(current')
       ELSE /\ proc' = "panic_index"
            /\ UNCHANGED <<marked, current, viewVars, bg>>
    /\ UNCHANGED drawFrame

\* The goroutines but the i-th.
Remove(seq, i) == SubSeq(seq, 1, i - 1) \o SubSeq(seq, i + 1, Len(seq))

goFrame == <<pc, cmd, listVars, marked, view, openMessage, scrollY, viewH, status, batchVars, edVars, modeVars, navVars, mimeVars, timeVars>>

\* Line 557, hasLabel(openMessage.LabelIds, unread): a nil openMessage
\* panics, and the panic of a goroutine ends the process. The labels are
\* those the listing delivered for the message openMessage points to now;
\* without the unread label the goroutine returns.
GoHasLabel(i) ==
    /\ proc = "run"
    /\ i \in DOMAIN bg
    /\ bg[i].at = "hasLabel"
    /\ IF openMessage = Nil
       THEN proc' = "panic_nil" /\ UNCHANGED bg
       ELSE /\ \E unread \in BOOLEAN :
                 bg' = IF unread
                       THEN [bg EXCEPT ![i].at = "id", ![i].labels = openMessage]
                       ELSE Remove(bg, i)
            /\ UNCHANGED proc
    /\ UNCHANGED goFrame

\* Line 560, id := openMessage.Id.
GoReadId(i) ==
    /\ proc = "run"
    /\ i \in DOMAIN bg
    /\ bg[i].at = "id"
    /\ IF openMessage = Nil
       THEN proc' = "panic_nil" /\ UNCHANGED bg
       ELSE /\ bg' = [bg EXCEPT ![i].at = "modify", ![i].id = openMessage]
            /\ UNCHANGED proc
    /\ UNCHANGED goFrame

\* Lines 561-566: Modify(email, id, RemoveLabelIds: unread).Do(), the error
\* dropped; the goroutine ends.
GoModify(i) ==
    /\ proc = "run"
    /\ i \in DOMAIN bg
    /\ bg[i].at = "modify"
    /\ bg' = Remove(bg, i)
    /\ UNCHANGED <<proc, goFrame>>

(* ------------------------ timestring (178-191) ------------------------ *)

\* 365*24*time.Hour, in days and in minutes.
yearDays == 365
dayMinutes == 24 * 60

\* A time is a day, counted from the first of January of some year, and a
\* minute of that day. Every year of the model has 365 days, and Date
\* headers are read in the time zone of time.Now().
Time(d, m) == [day |-> d, min |-> m]
NoDate == Time(-1, 0)

monthDays == <<31, 28, 31, 30, 31, 30, 31, 31, 30, 31, 30, 31>>

\* The month (1..12) the n-th day (0..364) of a year is in, looking from
\* month k on, and its day of the month.
RECURSIVE MonthFrom(_, _)
MonthFrom(n, k) == IF n < monthDays[k] THEN k ELSE MonthFrom(n - monthDays[k], k + 1)
RECURSIVE DayFrom(_, _)
DayFrom(n, k) == IF n < monthDays[k] THEN n + 1 ELSE DayFrom(n - monthDays[k], k + 1)

\* Time.Year(), Time.Month(), Time.Day()
Year(t) == t.day \div yearDays
Month(t) == MonthFrom(t.day % yearDays, 1)
Day(t) == DayFrom(t.day % yearDays, 1)

\* ts.Format(layout) for the three layouts timestring uses.
Format(t, layout) ==
    CASE layout = "2006" -> [layout |-> layout, a |-> Year(t), b |-> 0]
      [] layout = "Jan 02" -> [layout |-> layout, a |-> Month(t), b |-> Day(t)]
      [] layout = "15:04" -> [layout |-> layout, a |-> t.min \div 60, b |-> t.min % 60]
Unknown == [layout |-> "Unknown", a |-> 0, b |-> 0]

\* time.Since(ts), in minutes.
Since(ts, now) == (now.day - ts.day) * dayMinutes + (now.min - ts.min)

timestring(ts, now) ==
    IF ts = NoDate THEN Unknown
    ELSE IF Since(ts, now) > yearDays * dayMinutes THEN Format(ts, "2006")
    ELSE IF Day(now) # Day(ts) THEN Format(ts, "Jan 02")
    ELSE Format(ts, "15:04")

\* The times of day, the days of the calls and the dates of the model: a
\* date is not after now and at most 365 + AgeMargin days before it.
Minutes == {k * (dayMinutes \div NumMinutes) : k \in 0..(NumMinutes - 1)}
NowDays == (yearDays + AgeMargin)..(yearDays + AgeMargin + NumNows - 1)
DatesBefore(now) ==
    {NoDate} \cup
    {t \in {Time(d, m) : d \in (now.day - yearDays - AgeMargin)..now.day, m \in Minutes} :
        Since(t, now) >= 0}

\* messageList.draw renders the timestamp of a message, once per behaviour.
TimestringCall ==
    /\ tsPc = "start"
    /\ \E d \in NowDays, m \in Minutes :
          \E ts \in DatesBefore(Time(d, m)) :
             /\ tsNow' = Time(d, m)
             /\ tsDate' = ts
             /\ tsOut' = timestring(ts, Time(d, m))
    /\ tsPc' = "done"
    /\ UNCHANGED <<sessVars, batchVars, edVars, modeVars, navVars, mimeVars, bgVars>>

TimeInit ==
    /\ tsPc = "start"
    /\ tsNow = Time(0, 0)
    /\ tsDate = NoDate
    /\ tsOut = Unknown

EdInit ==
    /\ edPc = "idle"
    /\ edInput = Empty
    /\ edFile = NoFile
    /\ edTerm = "ui"
    /\ edDefers = << >>
    /\ edRet = NoRet
    /\ edCalls = 0

Init ==
    /\ proc = "run"
    /\ pc = "startup"
    /\ cmd = "main"
    /\ messagesNil = TRUE
    /\ msgs = << >>
    /\ current = 0
    /\ marked = {}
    /\ view = "messages"
    /\ openMessage = Nil
    /\ scrollY = 0
    /\ viewH = 0
    /\ status = Status("cmdg", 0, 0, Nil)
    /\ chans = << >>
    /\ idx = 1
    /\ ret = << >>
    /\ ok = 0
    /\ fail = 0
    /\ errstr = Nil
    /\ readyOrder = << >>
    /\ applyOrder = << >>
    /\ writers = {}
    /\ EdInit
    /\ ModeInit
    /\ NavInit
    /\ MimeInit
    /\ TimeInit
    /\ bg = << >>

Next ==
    \/ Startup
    \/ \E w \in 1..MaxList : ListWorker(w)
    \/ \E w \in 1..MaxList : ApplyWorker(w)
    \/ Run
    \/ RefreshReturn
    \/ messagesCmdRefresh
    \/ next
    \/ prev
    \/ messagesCmdMark
    \/ messagesCmdArchive
    \/ messagesCmdDelete
    \/ ApplyReport
    \/ ApplyRefresh
    \/ messagesCmdOpen
    \/ openMessageCmdPrev
    \/ openMessageCmdNext
    \/ openMessageCmdMark
    \/ openMessageCmdPageDown
    \/ openMessageCmdScrollDown
    \/ openMessageCmdPageUp
    \/ openMessageCmdScrollUp
    \/ openMessageCmdClose

Spec == Init /\ [][Next]_vars

EdNext ==
    \/ EdTempFile
    \/ EdWriteFile
    \/ EdTermboxClose
    \/ EdRunEditor
    \/ EdReadFile
    \/ EdDeferred
    \/ EdReturn

SpecEditor == Init /\ [][EdNext]_vars

ModeNext ==
    \/ messagesCmdCompose
    \/ runEditorMode
    \/ ComposeSwitch
    \/ openMessageCmdReply
    \/ getReply
    \/ ReplySend

SpecMode == Init /\ [][ModeNext]_vars

NavNext ==
    \/ loadFileDialog
    \/ saveFileDialog
    \/ \E key \in Keys : LoadKey(key)
    \/ \E key \in Keys : SaveEditKey(key)
    \/ \E key \in Keys : SaveBrowseKey(key)

SpecNav == Init /\ [][NavNext]_vars

MimeNext ==
    \/ MimeEncodeCall
    \/ MimeDecodeCall

SpecMime == Init /\ [][MimeNext]_vars

TimeNext == TimestringCall

SpecTime == Init /\ [][TimeNext]_vars

UnreadNext ==
    \/ Startup
    \/ \E w \in 1..MaxList : ListWorker(w)
    \/ Run
    \/ RefreshReturn
    \/ messagesCmdOpenGo
    \/ openMessageCmdPrevGo
    \/ openMessageCmdNextGo
    \/ openMessageCmdMarkGo
    \/ openMessageCmdClose
    \/ \E i \in 1..MaxBg : GoHasLabel(i)
    \/ \E i \in 1..MaxBg : GoReadId(i)
    \/ \E i \in 1..MaxBg : GoModify(i)

SpecUnread == Init /\ [][UnreadNext]_vars

(* ------------------------------- claims ------------------------------- *)

\* The main thread is inside a handler that ran a batch.
InBatch == pc \in {"list", "apply", "applied"}

\* How often worker w's apply action has been invoked.
Applied(w) == Cardinality({i \in DOMAIN applyOrder : applyOrder[i] = w})

\* Position of x in the sequence s.
Pos(s, x) == CHOOSE i \in DOMAIN s : s[i] = x

Max(a, b) == IF a > b THEN a ELSE b

\* C1: no apply action of a batch is ever invoked twice, and once
\* parallel.run has returned every operation added to the batch has had its
\* apply action invoked exactly once (n invocations for n operations), in
\* whatever order the workers completed; nothing is invoked after the return.
C1_RunAppliesEachOnce ==
    /\ \A w \in DOMAIN chans : Applied(w) <= 1
    /\ (InBatch /\ RunReturned) =>
          /\ Len(applyOrder) = Len(chans)
          /\ \A w \in DOMAIN chans : Applied(w) = 1 /\ chans[w].st = "done"

\* C1 witness: run has returned from a batch of two whose second worker
\* completed first.
C1_Witness ==
    /\ pc = "list"
    /\ RunReturned
    /\ Len(chans) = 2
    /\ readyOrder = <<2, 1>>
    /\ Len(ret) = 2

\* C2: the state shared by a batch (ret.messages, the mark set, ok, fail,
\* errstr) is written by the main thread only, which runs the apply actions
\* one after the other; no worker goroutine writes it.
C2_SingleWriter == writers \subseteq {MainThread}

\* C2 witness: a mutation batch with one success and one failure has been
\* applied, all of it by the main thread.
C2_Witness ==
    /\ pc = "applied"
    /\ writers = {MainThread}
    /\ ok = 1
    /\ fail = 1

\* C3 (as claimed): apply actions are invoked in the order in which the
\* workers' results became available.
C3_AppliedInReadyOrder ==
    \A i, j \in DOMAIN applyOrder :
        i < j => Pos(readyOrder, applyOrder[i]) < Pos(readyOrder, applyOrder[j])

\* C3 (amended): apply actions are invoked in the order in which the
\* operations were added to the batch, whatever the order in which the
\* results became available.
C3_AppliedInAddOrder == \A i \in DOMAIN applyOrder : applyOrder[i] = i

\* C3 witness: the second worker's result was ready first, the first
\* worker's apply action ran first.
C3_Witness ==
    /\ pc = "apply"
    /\ readyOrder = <<2, 1>>
    /\ applyOrder = <<1, 2>>

\* C4: after start-up no failing remote call of a batch worker ends the
\* session, in the fetch batch of a refresh as in the mutation batch.
C4_WorkerFailureContained == ~messagesNil => proc # "fatal_get"

\* The workers of the batch whose remote call failed.
Failed == {w \in DOMAIN chans : chans[w].err}

\* C5: messagesCmdApply adds one operation per marked message of the list;
\* after the batch ok and fail count the succeeded and the failed mutations,
\* and when something failed the status line shows both counts and the error
\* of one of the failed items.
C5_Counts ==
    /\ (pc = "apply" /\ applyOrder = << >>) =>
          Len(chans) = Cardinality({i \in DOMAIN msgs : msgs[i] \in marked})
    /\ pc = "applied" =>
          /\ fail = Cardinality(Failed)
          /\ ok = Len(chans) - Cardinality(Failed)
          /\ Failed # {} =>
                /\ status.kind = "partial"
                /\ status.ok = ok
                /\ status.fail = fail
                /\ \E w \in Failed : status.err = chans[w].id

\* C5 witness: a batch of two marked messages, one of which failed.
C5_Witness ==
    /\ pc = "applied"
    /\ Len(chans) = 2
    /\ Cardinality(Failed) = 1
    /\ status = Status("partial", 1, 1, chans[CHOOSE w \in Failed : TRUE].id)

\* The cursor is inside the list, or 0 on an empty list.
CursorInRange ==
    IF msgs = << >> THEN current = 0 ELSE 0 <= current /\ current < Len(msgs)

\* C6: the cursor is always inside the list (0 on an empty list), and the
\* next and prev keys of both views move it by at most one, never around
\* the ends.
C6_Cursor ==
    /\ []CursorInRange
    /\ [][/\ (next \/ openMessageCmdNext) => current' \in {current, current + 1}
          /\ (prev \/ openMessageCmdPrev) => current' \in {current - 1, current}]_vars

\* C6 witness: a refresh has emptied a list in which two messages had been
\* marked; the cursor is 0.
C6_Witness ==
    /\ pc = "idle"
    /\ cmd = "refresh"
    /\ msgs = << >>
    /\ Cardinality(marked) = 2
    /\ current = 0

\* C7: a refresh keeps the mark of every ID that is in the refreshed list
\* and marks nothing new.
C7_RefreshKeepsMarks ==
    [][RefreshReturn =>
          /\ \A id \in marked : id \in Range(msgs') => id \in marked'
          /\ marked' \subseteq marked]_vars

\* C7 witness: after a refresh a message of the list is marked, next to the
\* mark of an ID that is no longer listed.
C7_Witness ==
    /\ pc = "idle"
    /\ cmd = "refresh"
    /\ marked \cap Range(msgs) # {}
    /\ marked \ Range(msgs) # {}

\* The mutation of id was invoked in this batch and succeeded.
Succeeded(id) ==
    \E w \in DOMAIN chans : chans[w].id = id /\ chans[w].st # "running" /\ ~chans[w].err

\* C8: a step of messagesCmdApply removes a mark only of an ID whose
\* mutation was invoked in this batch and succeeded, so the mark of an ID
\* the batch ran no mutation for is kept; failed items stay marked.
C8_OnlySucceededUnmarked ==
    [][pc = "apply" =>
          /\ \A id \in marked \ marked' : Succeeded(id)
          /\ ApplyReport => \A w \in Failed : chans[w].id \in marked']_vars

\* C9: whenever a message is open, the scroll offset the last draw left is
\* in [0, max(0, bodyLines - visibleHeight + 10)].
C9_ScrollInRange ==
    openMessage # Nil =>
        /\ 0 <= scrollY
        /\ scrollY <= Max(0, BodyLines(openMessage) - viewH + scrollPad)

\* C9 witness: scrolling down was stopped at a positive upper bound.
C9_Witness ==
    /\ proc = "run"
    /\ view = "openMessage"
    /\ cmd \in {"pageDown", "scrollDown"}
    /\ scrollY > 0
    /\ scrollY = BodyLines(openMessage) - viewH + scrollPad

\* runEditor has stopped: it returned to its caller, or the process exited
\* inside it.
EdStopped == edPc = "fatal" \/ (edPc = "idle" /\ edCalls > 0)

\* C10: when runEditor has stopped, the temporary file is gone, and the
\* terminal is initialised again when control is back in the caller.
C10_ScopedRelease ==
    EdStopped =>
        /\ edFile = NoFile
        /\ edPc = "idle" => edTerm = "ui"

(* ------------------- claims: compose and reply ------------------------ *)

\* The text has a blank line with a line before it and a line after it,
\* which is where "\n\n" occurs.
HasSeparator(t) == \E i \in 2..(Len(t) - 1) : t[i] = Blank

\* The lines before the first blank-line separator of t.
HeaderBlock(t) ==
    SubSeq(t, 1, Min({i \in 2..(Len(t) - 1) : t[i] = Blank}) - 1)

ModeWords == {"send", "draft", "abort"}

\* The word t passes the mode validation with: the lower-case word of the
\* first Mode line of its header block, or "" when t is invalid.
ValidMode(t) ==
    IF ~HasSeparator(t) THEN ""
    ELSE LET h == HeaderBlock(t)
             d == {i \in DOMAIN h : h[i].kind = "mode"}
         IN  IF d = {} THEN ""
             ELSE IF ToLower(h[Min(d)].word) \in ModeWords
             THEN ToLower(h[Min(d)].word)
             ELSE ""

\* C11: when runEditorMode has returned without error, the text it returns
\* has a blank-line separator, the header block before it holds a line
\* "Mode: <word>" whose word in lower case is send, draft or abort, and the
\* returned mode is that lower-case word; no other text is returned.
C11_ModeReturned ==
    (cmd = "compose" /\ emRet # NoModeRet /\ ~emRet.err) =>
        /\ emRet.s = emS
        /\ HasSeparator(emRet.s)
        /\ emRet.mode \in ModeWords
        /\ \E i \in DOMAIN HeaderBlock(emRet.s) :
              /\ HeaderBlock(emRet.s)[i].kind = "mode"
              /\ ToLower(HeaderBlock(emRet.s)[i].word) = emRet.mode

\* C11 witness: runEditorMode has returned mode abort for a text whose
\* header says "Mode: ABORT".
C11_Witness ==
    /\ emPc = "compose"
    /\ emRet = ModeRetOk("abort", <<Directive("ABORT"), Blank, Other>>)

\* C12: while runEditorMode is in its loop after an invalid text, the seed
\* of the next editor call is exactly the text the last call returned, and
\* nothing has been sent.
C12_SeedIsLastText ==
    (emPc = "loop" /\ emS # NoText) =>
        /\ ValidMode(emS) = ""
        /\ emInput = emS
        /\ emSent = NoSend

\* C12 witness: the editor left an unrecognized mode word, and the loop is
\* about to open the editor on that text.
C12_Witness ==
    /\ emPc = "loop"
    /\ emS = <<Directive("later"), Blank, Other>>
    /\ emInput = emS

\* C13: when the editor has returned its seed unchanged and that text is
\* invalid, runEditorMode is not going to open the editor again.
C13_UnchangedTextStops ==
    (cmd = "compose" /\ emUnchanged /\ ValidMode(emS) = "") => emPc # "loop"

\* C14: in the compose flow a send has been issued only when runEditorMode
\* returned mode send without error, and what is sent is the returned text;
\* with mode abort, mode draft or an editor failure nothing is sent.
C14_ComposeSendsOnSend ==
    (cmd = "compose" /\ emSent # NoSend) =>
        /\ ~emRet.err
        /\ emRet.mode = "send"
        /\ emSent.flow = "compose"
        /\ emSent.raw = emRet.s

\* C14 witness: the compose flow has sent a text whose header says
\* "Mode: Send".
C14_Witness ==
    /\ cmd = "compose"
    /\ emPc = "idle"
    /\ emRet = ModeRetOk("send", <<Directive("Send"), Blank, Other>>)
    /\ emSent = SendCall("compose", emRet.s, FALSE)

\* C15: a reply has been sent only when the editor output passed the mode
\* validation with mode send.
C15_ReplyValidated ==
    (cmd = "reply" /\ emSent # NoSend) => ValidMode(emS) = "send"

(* --------------------- claims: file navigator ------------------------- *)

\* The entries of a listing after "." and "..".
Children(files) == SubSeq(files, 3, Len(files))

\* C16: a listing readDir returned starts with "." and "..", followed by
\* the sub-directories in ascending name order, followed by the
\* non-directories in ascending name order; every child of the directory
\* is in it exactly once, and nothing else is.
C16_ReadDirOrder ==
    navFiles # << >> =>
        /\ Len(navFiles) >= 2
        /\ navFiles[1] = Entry(DotName, TRUE)
        /\ navFiles[2] = Entry(DotDotName, TRUE)
        /\ \A i, j \in DOMAIN Children(navFiles) :
              i < j =>
                 /\ ~(~Children(navFiles)[i].dir /\ Children(navFiles)[j].dir)
                 /\ Children(navFiles)[i].dir = Children(navFiles)[j].dir =>
                       Children(navFiles)[i].name < Children(navFiles)[j].name
        /\ Range(Children(navFiles)) = navDisk
        /\ Len(Children(navFiles)) = Cardinality(navDisk)

\* C16 witness: a listing of a file and of a sub-directory whose name
\* comes after the file's.
C16_Witness ==
    /\ navPc \in {"load", "save"}
    /\ Children(navFiles) = <<Entry(NumNames, TRUE), Entry(1, FALSE)>>

\* C17: a step of either dialog in which readDir of the selected directory
\* fails leaves the current directory, the listing and the cursor as they
\* were, and the dialog goes on without returning anything.
C17_FailedChangeKeepsListing ==
    [][(navPc \in {"load", "save"} /\ navErr') =>
          /\ UNCHANGED <<navCurDir, navFiles, navDisk, navCur>>
          /\ navPc' = navPc
          /\ navRet' = NoNavRet]_vars

\* C17 witness: in save mode, Enter on a sub-directory whose readDir
\* failed; the cursor is still on that entry.
C17_Witness ==
    /\ navPc = "save"
    /\ navErr
    /\ navCur >= 2
    /\ navFiles[navCur + 1].dir

C19_SaveDialog ==
    /\ [](navPc = "save" => (-1 <= navCur /\ navCur <= Len(navFiles) - 1))
    /\ [][/\ (navPc = "save" /\ ~navEdit /\ navCur = -1 /\ SaveBrowseKey("enter")) =>
                /\ navPc' = "returned"
                /\ navRet' = [kind |-> "path", dir |-> navCurDir,
                              entry |-> DotName, fn |-> navFn]
          /\ (navPc = "save" /\ navEdit) =>
                UNCHANGED <<navCur, navCurDir, navFiles, navDisk>>
          /\ (navPc = "save" /\ ~navEdit) => navFn' = navFn]_vars

\* C19 witness: saveFileDialog has returned from the save position of a
\* sub-directory, with a typed filename, the editing switched off again.
C19_Witness ==
    /\ navPc = "returned"
    /\ navCur = -1
    /\ ~navEdit
    /\ navRet.kind = "path"
    /\ Len(navCurDir) = 1
    /\ navRet.dir = navCurDir
    /\ navRet.fn = navFn
    /\ navFn # << >>

(* ------------------------- claims: base64url -------------------------- *)

\* C20: what mimeEncode returns holds neither '+' nor '/', and mimeDecode
\* of it returns the byte string that was encoded, without error.
C20_RoundTrip ==
    /\ mimePc # "start" =>
          /\ "+" \notin Range(mimeOut)
          /\ "/" \notin Range(mimeOut)
    /\ mimePc = "decoded" => mimeBack = Decoded(mimeIn, FALSE)

\* C20 witness: a round trip of a string whose encoding holds both
\* replacement characters.
C20_Witness ==
    /\ mimePc = "decoded"
    /\ "-" \in Range(mimeOut)
    /\ "_" \in Range(mimeOut)
    /\ mimeBack.data = mimeIn

(* ------------------- claims: crashes and refresh ---------------------- *)

\* C23: in the detail view the offset openMessageDraw slices the body at is
\* never greater than the number of body lines, so bodyLines[scroll:] never
\* panics, whatever the pane height and the scroll keys pressed.
C23_SliceInBounds ==
    /\ proc # "panic_slice"
    /\ openMessage # Nil => scrollY <= BodyLines(openMessage)

\* C24: no key of the message list indexes messages.messages outside
\* [0, len - 1], the empty list included: mark and open never panic.
C24_ListCommandsSafe ==
    ~(proc = "panic_index" /\ cmd \in {"mark", "open"})

\* The IDs Users.Messages.List returned to this batch, in its order.
Listed == [i \in DOMAIN chans |-> chans[i].id]

\* C25: when list() returns, and in the list refreshMessages installs, there
\* is exactly one entry per listed ID, in the order of the listing, whatever
\* the order in which the fetches completed.
C25_ListInListingOrder ==
    /\ [](pc = "list" /\ RunReturned => ret = Listed)
    /\ [][RefreshReturn => msgs' = Listed]_vars

\* C25 witness: both fetches of a refresh are done, the second completed
\* first, and the list is in listing order.
C25_Witness ==
    /\ pc = "list"
    /\ cmd = "refresh"
    /\ RunReturned
    /\ readyOrder = <<2, 1>>
    /\ Listed = <<1, 2>>
    /\ ret = <<1, 2>>

(* -------------------------- claims: timestamp ------------------------- *)

\* C21: for a Date header that parses, timestring gives the year when the
\* date is more than 365 days before now, the time of day when the date is
\* earlier on the day of now, and month and day when the date is on another
\* calendar day within the last 365 days.
C21_TimestampColumn ==
    (tsPc = "done" /\ tsDate # NoDate) =>
        IF Since(tsDate, tsNow) > yearDays * dayMinutes
        THEN tsOut = [layout |-> "2006", a |-> Year(tsDate), b |-> 0]
        ELSE IF tsDate.day = tsNow.day
        THEN tsOut.layout = "15:04"
        ELSE tsOut.layout = "Jan 02"

(* ----------------------- claims: unread removal ---------------------- *)

\* C22: a goroutine of openMessageDraw reads the labels and the Id of the
\* message its own openMessageDraw opened, whatever keys are handled while
\* it runs, and never finds openMessage nil.
C22_GoroutineActsOnOpened ==
    /\ proc # "panic_nil"
    /\ \A i \in DOMAIN bg :
          /\ bg[i].labels # Nil => bg[i].labels = bg[i].opened
          /\ bg[i].id # Nil => bg[i].id = bg[i].opened

=============================================================================
